---------------------------- MODULE Spec2Model ----------------------------
(***************************************************************************)
(* Earnings event-study dashboard: src/app.py (the regression dashboard)   *)
(* and src/.ipynb_checkpoints/app-checkpoint.py (the decile dashboard).    *)
(*                                                                         *)
(* Both programs are Streamlit scripts: the whole script runs top to       *)
(* bottom once at start-up and again after every change of a widget.  The  *)
(* state is the content of the CSV files, the widgets' values, and what    *)
(* the last run of the script computed and showed.                         *)
(*                                                                         *)
(* Numbers.  A float is modelled as a pair <<p, q>>: q > 0 is the rational *)
(* p/q in lowest terms, <<0,0>> is NaN, <<1,0>> is +inf and <<-1,0>> is    *)
(* -inf.  Arithmetic is exact (no rounding); the non-finite values follow  *)
(* IEEE 754 as numpy applies it (0/0 = NaN with a RuntimeWarning, no       *)
(* exception).                                                             *)
(***************************************************************************)
EXTENDS Integers, Sequences, FiniteSets, TLC

VARIABLES
    events_csv,   \* events.csv: the set of (Ticker, Ann Date) rows
    meta_csv,     \* meta.csv: (Ticker, Ann Date) -> raw Surprise
    ar,           \* ar.csv: event key -> (offset -> abnormal return)
    upcoming,     \* upcoming_surprises.csv: event_id -> Surprise
    ticker,       \* app.py: value of the "Choose a ticker" selectbox
    window,       \* value of the "Choose CAR window" selectbox
    choice,       \* app.py: value of the "Pick an upcoming event" selectbox
    selected,     \* checkpoint: value of the "Select Ticker" selectbox
    pandas_merge, \* checkpoint: what merge(on=..., right_index=True) does in
                  \* the installed pandas: "MergeError" or "join"
    view          \* everything the last run of the script computed

vars ==
    <<events_csv, meta_csv, ar, upcoming, ticker, window, choice, selected,
      pandas_merge, view>>

tables == <<events_csv, meta_csv, ar, upcoming>>

-----------------------------------------------------------------------------
(* Bounds of the model.                                                    *)

\* AR levels of a row are 1..MaxAR.
MaxAR == 2
\* Finite surprises are 1..MaxSurprise.
MaxSurprise == 2

\* Ticker symbols, in sorted order.
TickerSeq == <<"A", "B">>
Tickers == {TickerSeq[i] : i \in 1..Len(TickerSeq)}
\* The (Ticker, Ann Date) pairs the files may hold, in file order; a date is
\* the number of its month.
EventSeq == <<<<"A", 1>>, <<"A", 2>>, <<"B", 1>>>>
EventUniverse == {EventSeq[i] : i \in 1..Len(EventSeq)}
\* The rows of upcoming_surprises.csv, in file order: (Ticker, Ann Date).
UpcomingSeq == <<<<"A", 3>>, <<"B", 3>>>>

-----------------------------------------------------------------------------
(* Floats.                                                                 *)

NaN == <<0, 0>>
PosInf == <<1, 0>>
NegInf == <<-1, 0>>
F(n) == <<n, 1>>

IsNaN(v) == v = NaN
IsFinite(v) == v[2] > 0
Abs(n) == IF n < 0 THEN -n ELSE n
Sign(n) == IF n < 0 THEN -1 ELSE IF n > 0 THEN 1 ELSE 0

RECURSIVE Gcd(_, _)
Gcd(a, b) == IF b = 0 THEN a ELSE Gcd(b, a % b)

\* p/q with q # 0, in lowest terms with a positive denominator.
Norm(p, q) ==
    LET g == Gcd(Abs(p), Abs(q))
        s == IF q < 0 THEN -1 ELSE 1
    IN  <<(s * p) \div g, (s * q) \div g>>

RAdd(a, b) ==
    IF IsNaN(a) \/ IsNaN(b) THEN NaN
    ELSE IF ~IsFinite(a) /\ ~IsFinite(b) THEN (IF a = b THEN a ELSE NaN)
    ELSE IF ~IsFinite(a) THEN a
    ELSE IF ~IsFinite(b) THEN b
    ELSE Norm(a[1] * b[2] + b[1] * a[2], a[2] * b[2])

RNeg(a) == <<-a[1], a[2]>>
RSub(a, b) == RAdd(a, RNeg(b))

RMul(a, b) ==
    IF IsNaN(a) \/ IsNaN(b) THEN NaN
    ELSE IF ~IsFinite(a) \/ ~IsFinite(b)
         THEN (IF a[1] = 0 \/ b[1] = 0 THEN NaN ELSE <<Sign(a[1]) * Sign(b[1]), 0>>)
    ELSE Norm(a[1] * b[1], a[2] * b[2])

\* numpy float64 division: never raises; x/0 is +-inf, 0/0 is NaN.
RDiv(a, b) ==
    IF IsNaN(a) \/ IsNaN(b) THEN NaN
    ELSE IF ~IsFinite(a) /\ ~IsFinite(b) THEN NaN
    ELSE IF ~IsFinite(a) THEN <<a[1] * (IF b[1] < 0 THEN -1 ELSE 1), 0>>
    ELSE IF ~IsFinite(b) THEN F(0)
    ELSE IF b[1] = 0 THEN (IF a[1] = 0 THEN NaN ELSE <<Sign(a[1]), 0>>)
    ELSE Norm(a[1] * b[2], a[2] * b[1])

\* a > b on floats; any comparison with NaN is false.
RGreater(a, b) ==
    IF IsNaN(a) \/ IsNaN(b) THEN FALSE
    ELSE IF ~IsFinite(a) \/ ~IsFinite(b)
         THEN (IF ~IsFinite(a) /\ ~IsFinite(b) THEN a[1] > b[1]
               ELSE IF ~IsFinite(a) THEN a[1] > 0 ELSE b[1] < 0)
    ELSE a[1] * b[2] > b[1] * a[2]

-----------------------------------------------------------------------------
(* Columns and series.                                                     *)

\* A sequence / a function given by a rule, as its table of values.
Force(s) == s \o <<>>
Mat(f) == f @@ <<>>

RECURSIVE SeqSum(_)
\* Sum of a sequence of floats, left to right (NaN propagates).
SeqSum(s) == IF s = <<>> THEN F(0) ELSE RAdd(s[1], SeqSum(Tail(s)))

\* The non-missing entries of a sequence of floats (pandas skipna / dropna).
DropNa(s) == SelectSeq(s, LAMBDA v : ~IsNaN(v))

\* Series.sum(skipna=True), DataFrame.sum(axis=1): NaN cells are skipped, an
\* all-NaN (or empty) input sums to 0.
SumSkipNa(s) == SeqSum(DropNa(s))

\* Series.mean(): the mean of the non-missing entries, NaN when there is none.
Mean(s) == LET kept == DropNa(s) IN RDiv(SeqSum(kept), F(Len(kept)))

\* ndarray.mean(): no skipping.
ArrayMean(s) == RDiv(SeqSum(s), F(Len(s)))

-----------------------------------------------------------------------------
(* Loading and keys (app.py 22-42).                                        *)

\* Ann Date.dt.date.astype(str): the ISO text of a date.
DateStr(d) == "2024-0" \o ToString(d) \o "-15"

\* Ticker + " | " + date text.
EventId(t, d) == t \o " | " \o DateStr(d)

Key(e) == EventId(e[1], e[2])

\* The event keys in file order.
KeySeq == Force([i \in 1..Len(EventSeq) |-> Key(EventSeq[i])])

\* A set of event keys as the sequence of its members in file order.
InFileOrder(S) == SelectSeq(KeySeq, LAMBDA k : k \in S)

\* pd.to_numeric(errors="coerce") then replace([inf, -inf], nan).
CleanSurprise(v) == IF IsFinite(v) THEN v ELSE NaN

\* events with its event_id column.
events ==
    {[Ticker |-> e[1], AnnDate |-> e[2], event_id |-> Key(e)] : e \in events_csv}

\* meta, cleaned and indexed by event_id: event_id -> Surprise.
meta ==
    LET ids == {Key(e) : e \in DOMAIN meta_csv}
    IN  Mat([k \in ids |->
            CleanSurprise(meta_csv[CHOOSE e \in DOMAIN meta_csv : Key(e) = k])])

-----------------------------------------------------------------------------
(* CAR windows (app.py 44-52, app-checkpoint.py 12-15).                    *)

Offsets == -5..5

\* The cells of an AR row at the offsets lo..hi, left to right.
Cells(row, lo, hi) == Force([i \in 1..(hi - lo + 1) |-> row[lo + i - 1]])

car0 == Mat([k \in DOMAIN ar |-> ar[k][0]])
\* Mutant of car1: the day before the announcement is left out.
car1_two_days == Mat([k \in DOMAIN ar |-> SumSkipNa(Cells(ar[k], 0, 1))])
car1 == Mat([k \in DOMAIN ar |-> SumSkipNa(Cells(ar[k], -1, 1))])
car11 == Mat([k \in DOMAIN ar |-> SumSkipNa(Cells(ar[k], -5, 5))])

WindowNames == <<"CAR(0,0)", "CAR(-1,+1)", "CAR(-5,+5)">>
WindowSet == {WindowNames[i] : i \in 1..Len(WindowNames)}

windows ==
    ("CAR(0,0)" :> car0) @@ ("CAR(-1,+1)" :> car1) @@ ("CAR(-5,+5)" :> car11)

-----------------------------------------------------------------------------
(* app.py 61-85: inputs, ticker filter, key metrics.                       *)

\* sorted(events["Ticker"].unique())
TickerOptions == SelectSeq(TickerSeq, LAMBDA t : \E e \in events_csv : e[1] = t)

RECURSIVE SortByDate(_)
\* DataFrame.sort_values("Ann Date"): rows by ascending date.
SortByDate(S) ==
    IF S = {} THEN <<>>
    ELSE LET first == CHOOSE e \in S : \A o \in S : e.AnnDate <= o.AnnDate
         IN  <<first>> \o SortByDate(S \ {first})

\* ev: the announcement rows of ticker t, by date.
ev(t) == SortByDate({e \in events : e.Ticker = t})

\* ev["event_id"]
EvIds(E) == Force([i \in 1..Len(E) |-> E[i].event_id])

\* Series.loc[list of labels] / DataFrame.loc[list of labels] raise KeyError
\* when a label is not in the index.
LocRaises(index, labels) == \E i \in 1..Len(labels) : labels[i] \notin index

\* car_win = car_series.loc[ev["event_id"]], as the sequence of its values.
car_win(ids, car_series) == Force([i \in 1..Len(ids) |-> car_series[ids[i]]])

avg_car(cw) == Mean(cw)
last_eid(E) == E[Len(E)].event_id
last_surprise(md, eid) == md[eid]
last_car(car_series, eid) == car_series[eid]
n_events(E) == Len(E)

-----------------------------------------------------------------------------
(* app.py 93-100: ranking.                                                 *)

\* Insert row r into rows sorted by descending CAR, after the rows that do not
\* sort behind it; a missing CAR sorts last (na_position="last").
RECURSIVE InsertDesc(_, _)
InsertDesc(r, rows) ==
    IF rows = <<>> THEN <<r>>
    ELSE IF ~IsNaN(r.CAR) /\ (IsNaN(rows[1].CAR) \/ RGreater(r.CAR, rows[1].CAR))
         THEN <<r>> \o rows
         ELSE <<rows[1]>> \o InsertDesc(r, Tail(rows))

RECURSIVE SortDesc(_)
\* sort_values("CAR", ascending=False)
SortDesc(rows) ==
    IF rows = <<>> THEN <<>>
    ELSE InsertDesc(rows[Len(rows)], SortDesc(SubSeq(rows, 1, Len(rows) - 1)))

\* The CAR rows merged with events on event_id (inner join): event_id, CAR, Ticker.
RankMerge(car_series) ==
    LET ev_all == events
        joined == InFileOrder({k \in DOMAIN car_series : \E e \in ev_all : e.event_id = k})
    IN  Force([i \in 1..Len(joined) |->
            [event_id |-> joined[i], CAR |-> car_series[joined[i]],
             Ticker |-> (CHOOSE e \in ev_all : e.event_id = joined[i]).Ticker]])

\* The CAR column of rows, as a sequence.
CarColumn(rows) == Force([i \in 1..Len(rows) |-> rows[i].CAR])

\* groupby("Ticker")["CAR"].mean(): one row per ticker of the merge, in the
\* order of the tickers, the mean skipping missing values.
RankGroup(m) ==
    LET present == SelectSeq(TickerSeq, LAMBDA t : \E i \in 1..Len(m) : m[i].Ticker = t)
    IN  Force([j \in 1..Len(present) |->
            [Ticker |-> present[j],
             CAR |-> Mean(CarColumn(SelectSeq(m, LAMBDA r : r.Ticker = present[j])))]])

\* Mutant of df_rank: sorted the other way round.
df_rank_ascending(car_series) ==
    LET d == SortDesc(RankGroup(RankMerge(car_series)))
    IN  Force([i \in 1..Len(d) |-> d[Len(d) + 1 - i]])
df_rank(car_series) == SortDesc(RankGroup(RankMerge(car_series)))

-----------------------------------------------------------------------------
(* app.py 106-165: history table, AR curve, scatter.                       *)

\* df_table, one row per row of ev, in the order of ev.
df_table(E, md, ar_sub, car_series) ==
    Force([i \in 1..Len(E) |->
        LET k == E[i].event_id
        IN  ("event_id" :> k) @@ ("Ann Date" :> E[i].AnnDate)
            @@ ("Surprise" :> md[k])
            @@ ("CAR(0,0)" :> ar_sub[k][0])
            @@ ("CAR(-1,+1)" :> car_series[k])
            @@ ("CAR(-5,+5)" :> SumSkipNa(Cells(ar_sub[k], -5, 5)))])

\* The days of the chosen window.
days(w) ==
    IF w = "CAR(0,0)" THEN 0..0
    ELSE IF w = "CAR(-1,+1)" THEN -1..1
    ELSE -5..5

\* df_curve: Day -> AR of the latest event.
df_curve(full_ar, w) == Mat([d \in days(w) |-> full_ar[d]])

\* df_sc: Surprise, CAR, Date of each row of ev.
df_sc(E, md, cw) ==
    Force([i \in 1..Len(E) |->
        [Surprise |-> md[E[i].event_id], CAR |-> cw[i], Date |-> E[i].AnnDate]])

-----------------------------------------------------------------------------
(* app.py 168-202: regression of CAR on surprise, forecast.                *)

\* df_pred: every row of the window's CAR series (target), left-merged with
\* the surprises on event_id, without the rows whose Surprise or CARw is
\* missing.
df_pred(target, md) ==
    LET all == InFileOrder(DOMAIN target)
        merged == Force([i \in 1..Len(all) |->
                      [event_id |-> all[i], CARw |-> target[all[i]],
                       Surprise |-> IF all[i] \in DOMAIN md THEN md[all[i]] ELSE NaN]])
    IN  SelectSeq(merged, LAMBDA r : ~IsNaN(r.Surprise) /\ ~IsNaN(r.CARw))

\* x, y = df_pred["Surprise"].values, df_pred["CARw"].values
FitX(dfp) == Force([i \in 1..Len(dfp) |-> dfp[i].Surprise])
FitY(dfp) == Force([i \in 1..Len(dfp) |-> dfp[i].CARw])

\* ((x - xm)*(y - ym)).sum() / ((x - xm)**2).sum()
Slope(x, y) ==
    LET xm == ArrayMean(x)
        ym == ArrayMean(y)
        num == SeqSum(Force([i \in 1..Len(x) |-> RMul(RSub(x[i], xm), RSub(y[i], ym))]))
        den == SeqSum(Force([i \in 1..Len(x) |-> RMul(RSub(x[i], xm), RSub(x[i], xm))]))
    IN  RDiv(num, den)

\* Mutant of Intercept: the sign of the slope term is wrong.
InterceptPlus(x, y, g1) == RAdd(ArrayMean(y), RMul(g1, ArrayMean(x)))

\* ym - gamma1*xm
Intercept(x, y, g1) == RSub(ArrayMean(y), RMul(g1, ArrayMean(x)))

\* st.warning("No historical Surprise+CAR data to fit model.") is called.
warning(dfp) == dfp = <<>>

gamma1(dfp) == IF dfp = <<>> THEN F(0) ELSE Slope(FitX(dfp), FitY(dfp))
\* Mutant of gamma0: the empty training set is not set apart.
gamma0_no_fallback(dfp, g1) == Intercept(FitX(dfp), FitY(dfp), g1)
gamma0(dfp, g1) == IF dfp = <<>> THEN F(0) ELSE Intercept(FitX(dfp), FitY(dfp), g1)

\* upcoming["event_id"], the options of the selectbox, in file order.
UpcomingOptions == Force([i \in 1..Len(UpcomingSeq) |-> Key(UpcomingSeq[i])])

next_surp(c) == upcoming[c]
pred_car(g0, g1, surp) == RAdd(g0, RMul(g1, surp))

-----------------------------------------------------------------------------
(* One run of app.py, top to bottom.                                       *)

Sections ==
    {"Key Metrics", "Ranking", "Earnings History", "Latest AR Curve",
     "Surprise vs. Return", "Forecast Next Event CAR"}

\* What a run has computed when line `at` raises KeyError (before section 4.3).
Aborted(W, E, at) ==
    [status |-> "KeyError", line |-> at, windows |-> W, ev |-> E,
     avg_car |-> NaN, last_eid |-> "", last_surprise |-> NaN, last_car |-> NaN,
     n_events |-> 0, df_rank |-> <<>>, df_table |-> <<>>, df_curve |-> <<>>,
     df_sc |-> <<>>, df_pred |-> <<>>, warning |-> FALSE, gamma0 |-> NaN,
     gamma1 |-> NaN, next_surp |-> NaN, pred_car |-> NaN, shown |-> {}]

\* Before the first run.
NotRun ==
    [status |-> "not run", line |-> 0, windows |-> <<>>, ev |-> <<>>,
     avg_car |-> NaN, last_eid |-> "", last_surprise |-> NaN, last_car |-> NaN,
     n_events |-> 0, df_rank |-> <<>>, df_table |-> <<>>, df_curve |-> <<>>,
     df_sc |-> <<>>, df_pred |-> <<>>, warning |-> FALSE, gamma0 |-> NaN,
     gamma1 |-> NaN, next_surp |-> NaN, pred_car |-> NaN, shown |-> {}]

Run(t, w, c) ==
    LET W == windows
        car_series == W[w]
        md_all == meta
        E == ev(t)
        ids == EvIds(E)
    IN  IF LocRaises(DOMAIN ar, ids) THEN Aborted(W, E, 73)
        ELSE IF LocRaises(DOMAIN md_all, ids) THEN Aborted(W, E, 74)
        ELSE
        LET cw == car_win(ids, car_series)
            eid == last_eid(E)
            dfp == df_pred(W[w], md_all)
            g1 == gamma1(dfp)
            g0 == gamma0(dfp, g1)
            ns == next_surp(c)
        IN  [status |-> "ok", line |-> 0, windows |-> W, ev |-> E,
             avg_car |-> avg_car(cw), last_eid |-> eid,
             last_surprise |-> last_surprise(md_all, eid),
             last_car |-> last_car(cw, Len(cw)),
             n_events |-> n_events(E), df_rank |-> df_rank(car_series),
             df_table |-> df_table(E, md_all, ar, car_series),
             df_curve |-> df_curve(ar[eid], w),
             df_sc |-> df_sc(E, md_all, cw), df_pred |-> dfp,
             warning |-> warning(dfp), gamma0 |-> g0, gamma1 |-> g1,
             next_surp |-> ns, pred_car |-> pred_car(g0, g1, ns),
             shown |-> Sections]

-----------------------------------------------------------------------------
(* The files.                                                              *)

\* The surprises of meta.csv as parsed: empty, infinite or finite.
SurpriseVals == {NaN, PosInf} \cup {F(n) : n \in 1..MaxSurprise}

\* The offsets a row of ar.csv may miss: one cell, or all of them.
MissPatterns == {{0}, {-1}, {5}, Offsets}

\* A row of ar.csv: level + offset at every offset, the cells in miss empty.
ARRow(level, miss) ==
    Mat([i \in Offsets |-> IF i \in miss THEN NaN ELSE F(level + i)])

AllKeys == {KeySeq[i] : i \in 1..Len(KeySeq)}
KeyPos(k) == CHOOSE i \in 1..Len(KeySeq) : KeySeq[i] = k

\* The surprise and the AR level an event has when they are not varied.
PlainSurprise(e) == F(1 + (KeyPos(Key(e)) % MaxSurprise))
PlainLevel(k) == 1 + (KeyPos(k) % MaxAR)

\* Files with join anomalies: every subset of the events in each file.
JoinFiles ==
    {<<E, Mat([e \in M |-> PlainSurprise(e)]),
       Mat([k \in {Key(e) : e \in A} |-> ARRow(PlainLevel(k), {})])>> :
        E \in (SUBSET EventUniverse) \ {{}},
        M \in SUBSET EventUniverse,
        A \in SUBSET EventUniverse}

\* Files with varied values: every event in every file, any surprise (or
\* none) and any AR level per event, no empty AR cell.
ValueFiles ==
    {<<EventUniverse, m, Mat([k \in AllKeys |-> ARRow(l[k], {})])>> :
        m \in [EventUniverse -> SurpriseVals],
        l \in [AllKeys -> 1..MaxAR]}

\* Files with empty AR cells: every event in every file, any AR level per
\* event, one row of ar.csv with empty cells.
HoleFiles ==
    {<<EventUniverse, Mat([e \in EventUniverse |-> PlainSurprise(e)]),
       Mat([k \in AllKeys |-> ARRow(l[k], IF k = hole[1] THEN hole[2] ELSE {})])>> :
        l \in [AllKeys -> 1..MaxAR],
        hole \in AllKeys \X MissPatterns}

Files == JoinFiles \cup ValueFiles \cup HoleFiles

UpcomingFile ==
    Mat([c \in {UpcomingOptions[i] : i \in 1..Len(UpcomingOptions)} |->
        IF c = UpcomingOptions[1] THEN F(MaxSurprise + 1) ELSE NaN])

-----------------------------------------------------------------------------
(* The dashboard of app.py.                                                *)

\* The files are on disk, the session is open, the script has not run yet.
Init ==
    /\ \E f \in Files :
          /\ events_csv = f[1]
          /\ meta_csv = f[2]
          /\ ar = f[3]
    /\ upcoming = UpcomingFile
    /\ ticker = TickerOptions[1]
    /\ window = WindowNames[1]
    /\ choice = UpcomingOptions[1]
    /\ selected = ""
    /\ pandas_merge = "unused"
    /\ view = NotRun

\* The first run of the script, every selectbox at its first option.
Startup ==
    /\ view.status = "not run"
    /\ view' = Run(ticker, window, choice)
    /\ UNCHANGED <<tables, pandas_merge, ticker, window, choice, selected>>

\* The user picks another ticker: the script runs again.
SelectTicker(t) ==
    /\ view.status # "not run"
    /\ \E e \in events_csv : e[1] = t
    /\ t # ticker
    /\ ticker' = t
    /\ view' = Run(t, window, choice)
    /\ UNCHANGED <<tables, pandas_merge, window, choice, selected>>

\* Mutant of SelectWindow: the ranking of the previous run is shown again.
SelectWindowStaleRank(w) ==
    /\ view.status # "not run"
    /\ w # window
    /\ window' = w
    /\ view' = [Run(ticker, w, choice) EXCEPT !.df_rank = view.df_rank]
    /\ UNCHANGED <<tables, pandas_merge, ticker, choice, selected>>

\* The user picks another CAR window: the script runs again.
SelectWindow(w) ==
    /\ view.status # "not run"
    /\ w # window
    /\ window' = w
    /\ view' = Run(ticker, w, choice)
    /\ UNCHANGED <<tables, pandas_merge, ticker, choice, selected>>

\* The user picks another upcoming event (the selectbox is on screen only
\* when the last run reached line 199): the script runs again.
SelectUpcoming(c) ==
    /\ view.status = "ok"
    /\ c # choice
    /\ choice' = c
    /\ view' = Run(ticker, window, c)
    /\ UNCHANGED <<tables, pandas_merge, ticker, window, selected>>

Next ==
    \/ Startup
    \/ \E t \in Tickers : SelectTicker(t)
    \/ \E w \in WindowSet : SelectWindow(w)
    \/ \E c \in DOMAIN upcoming : SelectUpcoming(c)

Spec == Init /\ [][Next]_vars

-----------------------------------------------------------------------------
(* Properties of app.py.                                                   *)

\* The offsets of a named window.
CarWindow(w) ==
    IF w = "CAR(0,0)" THEN {0}
    ELSE IF w = "CAR(-1,+1)" THEN {-1, 0, 1}
    ELSE Offsets

RECURSIVE ExactSum(_, _)
\* The sum of the cells of an AR row at the offsets S, nothing skipped.
ExactSum(row, S) ==
    IF S = {} THEN F(0)
    ELSE LET i == CHOOSE j \in S : TRUE
         IN  RAdd(row[i], ExactSum(row, S \ {i}))

Ran == view.status # "not run"
Complete(row) == \A i \in Offsets : ~IsNaN(row[i])

\* C1: for every AR row whose eleven offsets are all present, CAR(0,0) is the
\* AR at offset 0, CAR(-1,+1) the sum of the AR at -1, 0, 1 and CAR(-5,+5)
\* the sum of the AR at -5..5; each series has one value per AR-table key.
C1_WindowsAreSums ==
    Ran =>
        /\ \A w \in WindowSet : DOMAIN view.windows[w] = DOMAIN ar
        /\ \A k \in DOMAIN ar :
              Complete(ar[k]) =>
                  /\ view.windows["CAR(0,0)"][k] = ar[k][0]
                  /\ view.windows["CAR(-1,+1)"][k] =
                        RAdd(RAdd(ar[k][-1], ar[k][0]), ar[k][1])
                  /\ view.windows["CAR(-5,+5)"][k] = ExactSum(ar[k], Offsets)

\* C1 witness: the windows are built over a complete AR row whose three CARs
\* differ from each other.
C1_Witness ==
    /\ Ran
    /\ \E k \in DOMAIN ar :
          /\ Complete(ar[k])
          /\ view.windows["CAR(0,0)"][k] # view.windows["CAR(-1,+1)"][k]
          /\ view.windows["CAR(-1,+1)"][k] # view.windows["CAR(-5,+5)"][k]
          /\ view.windows["CAR(0,0)"][k] # F(0)

\* C2 (as claimed): if the AR at any offset of a window is missing for an
\* event, the window's CAR of that event is missing.
C2_MissingPropagates ==
    Ran =>
        \A w \in WindowSet : \A k \in DOMAIN ar :
            (\E i \in CarWindow(w) : IsNaN(ar[k][i])) => IsNaN(view.windows[w][k])

\* C3 (as claimed): a non-empty training set whose surprises are all equal
\* gives gamma0 = 0, gamma1 = 0 and a warning.
C3_ZeroVarianceNullModel ==
    (/\ view.status = "ok"
     /\ view.df_pred # <<>>
     /\ \A i, j \in 1..Len(view.df_pred) :
            view.df_pred[i].Surprise = view.df_pred[j].Surprise)
        => /\ view.gamma0 = F(0)
           /\ view.gamma1 = F(0)
           /\ view.warning

\* The events of the selected ticker, and those with a row in both other files.
TickerEvents == {e \in events_csv : e[1] = ticker}
Joinable(e) == Key(e) \in DOMAIN ar /\ e \in DOMAIN meta_csv

\* C4 (as claimed): when an event of the selected ticker has no row in the AR
\* table or in the metadata, the run completes, the history table leaves that
\* event out and keeps the events that have both.
C4_MissingKeyExcluded ==
    (Ran /\ \E e \in TickerEvents : ~Joinable(e))
        => /\ view.status = "ok"
           /\ {view.df_table[i]["event_id"] : i \in 1..Len(view.df_table)}
                 = {Key(e) : e \in {x \in TickerEvents : Joinable(x)}}


\* The events of ticker t that are joined to the CAR series by event key.
JoinedKeys(t) == {Key(e) : e \in {x \in events_csv : x[1] = t /\ Key(x) \in DOMAIN ar}}

RECURSIVE SetSum(_, _)
\* The sum of the series cs over the keys S.
SetSum(cs, S) ==
    IF S = {} THEN F(0)
    ELSE LET k == CHOOSE j \in S : TRUE
         IN  RAdd(cs[k], SetSum(cs, S \ {k}))

\* C5: the ranking has one row per ticker with an event joined to the CAR
\* series; a row's value is the mean of the ticker's non-missing CARs (missing
\* when it has none, the CAR itself when it has one event); the rows are in
\* non-increasing order of mean CAR, the missing means last.
C5_RankingIsSortedMean ==
    view.status = "ok" =>
        LET r == view.df_rank
            cs == view.windows[window]
            valid(t) == {k \in JoinedKeys(t) : ~IsNaN(cs[k])}
        IN  /\ {r[i].Ticker : i \in 1..Len(r)} = {t \in Tickers : JoinedKeys(t) # {}}
            /\ \A i, j \in 1..Len(r) : r[i].Ticker = r[j].Ticker => i = j
            /\ \A i \in 1..Len(r) :
                  LET v == valid(r[i].Ticker)
                  IN  /\ v = {} => IsNaN(r[i].CAR)
                      /\ v # {} =>
                            /\ IsFinite(r[i].CAR)
                            /\ r[i].CAR[1] * SetSum(cs, v)[2] * Cardinality(v)
                                  = SetSum(cs, v)[1] * r[i].CAR[2]
                      /\ \A k \in v : JoinedKeys(r[i].Ticker) = {k} => r[i].CAR = cs[k]
            /\ \A i, j \in 1..Len(r) :
                  i < j =>
                      \/ IsNaN(r[j].CAR)
                      \/ /\ ~IsNaN(r[i].CAR)
                         /\ r[i].CAR[1] * r[j].CAR[2] >= r[j].CAR[1] * r[i].CAR[2]

\* C5 witness: a ranking of two tickers with different means, one of them
\* with two joined events of which one has a missing CAR.
C5_Witness ==
    /\ view.status = "ok"
    /\ Len(view.df_rank) = 2
    /\ IsFinite(view.df_rank[1].CAR) /\ IsFinite(view.df_rank[2].CAR)
    /\ view.df_rank[1].CAR # view.df_rank[2].CAR
    /\ \E t \in Tickers :
          /\ Cardinality(JoinedKeys(t)) = 2
          /\ Cardinality({k \in JoinedKeys(t) : IsNaN(view.windows[window][k])}) = 1

\* The keys with a non-missing cleaned surprise and a non-missing CAR in the
\* chosen window.
TrainingKeys ==
    {k \in DOMAIN ar :
        /\ ~IsNaN(view.windows[window][k])
        /\ \E e \in DOMAIN meta_csv : Key(e) = k /\ IsFinite(meta_csv[e])}

\* Every training row lies on the line y = g0 + g1*x.
OnLine(dfp, g0, g1) ==
    \A i \in 1..Len(dfp) : dfp[i].CARw = RAdd(g0, RMul(g1, dfp[i].Surprise))

\* C6: the fit uses exactly the events with a non-missing surprise and a
\* non-missing CAR; when they all lie on a line CAR = g0 + g1*surprise and two
\* of them differ in surprise, gamma0 = g0, gamma1 = g1, and the prediction
\* for an upcoming surprise s is g0 + g1*s.
C6_OlsRoundTrip ==
    view.status = "ok" =>
        LET dfp == view.df_pred
        IN  /\ {dfp[i].event_id : i \in 1..Len(dfp)} = TrainingKeys
            /\ Len(dfp) = Cardinality(TrainingKeys)
            /\ \A i \in 1..Len(dfp) :
                  /\ dfp[i].CARw = view.windows[window][dfp[i].event_id]
                  /\ \E e \in DOMAIN meta_csv :
                        Key(e) = dfp[i].event_id /\ meta_csv[e] = dfp[i].Surprise
            /\ \A i, j \in 1..Len(dfp) :
                  dfp[i].Surprise # dfp[j].Surprise =>
                      LET g1 == RDiv(RSub(dfp[j].CARw, dfp[i].CARw),
                                     RSub(dfp[j].Surprise, dfp[i].Surprise))
                          g0 == RSub(dfp[i].CARw, RMul(g1, dfp[i].Surprise))
                      IN  OnLine(dfp, g0, g1) =>
                              /\ view.gamma0 = g0
                              /\ view.gamma1 = g1
                              /\ IsFinite(upcoming[choice]) =>
                                    view.pred_car = RAdd(g0, RMul(g1, upcoming[choice]))

\* C6 witness: three training events on one line with a non-zero slope and a
\* non-zero intercept, and a prediction made from it.
C6_Witness ==
    /\ view.status = "ok"
    /\ Len(view.df_pred) = 3
    /\ \E i, j \in 1..3 : view.df_pred[i].Surprise # view.df_pred[j].Surprise
    /\ OnLine(view.df_pred, view.gamma0, view.gamma1)
    /\ IsFinite(view.gamma0) /\ view.gamma0 # F(0)
    /\ IsFinite(view.gamma1) /\ view.gamma1 # F(0)
    /\ IsFinite(view.pred_car)

C9_EmptyFitFallsBack ==
    (view.status = "ok" /\ TrainingKeys = {})
        => /\ view.gamma0 = F(0)
           /\ view.gamma1 = F(0)
           /\ view.warning
           /\ "Forecast Next Event CAR" \in view.shown
           /\ view.next_surp = upcoming[choice]
           /\ view.pred_car = RAdd(F(0), RMul(F(0), upcoming[choice]))

\* C9 witness: a run with rows in the AR table and no training row, the
\* forecast made for an upcoming event with a surprise.
C9_Witness ==
    /\ view.status = "ok"
    /\ TrainingKeys = {}
    /\ DOMAIN ar # {}
    /\ view.warning
    /\ IsFinite(upcoming[choice])
    /\ view.pred_car = F(0)

\* C10 (as claimed): each row of the history table is an event of the ticker
\* whose columns CAR(0,0), CAR(-1,+1), CAR(-5,+5) hold the AR at 0, the sum
\* of the AR at -1, 0, 1 and the sum of the AR at -5..5 of that event (stated
\* for the events whose offsets are all present).
C10_HistoryColumns ==
    view.status = "ok" =>
        \A i \in 1..Len(view.df_table) :
            LET row == view.df_table[i]
                k == row["event_id"]
            IN  /\ k \in {Key(e) : e \in TickerEvents}
                /\ Complete(ar[k]) =>
                      /\ row["CAR(0,0)"] = ar[k][0]
                      /\ row["CAR(-1,+1)"] = ExactSum(ar[k], {-1, 0, 1})
                      /\ row["CAR(-5,+5)"] = ExactSum(ar[k], Offsets)

-----------------------------------------------------------------------------
(* app-checkpoint.py: the decile dashboard.                                *)
(*                                                                         *)
(* The "Upcoming Earnings" calendar (lines 43-59) depends on the clock     *)
(* only, raises nothing and feeds no later section; it is left out.        *)

\* idx.split(" | ")[0]: the text before the first " | " (all of it without one).
SplitTicker(idx) ==
    LET cuts == {i \in 1..(Len(idx) - 2) : SubSeq(idx, i, i + 2) = " | "}
    IN  IF cuts = {} THEN idx
        ELSE SubSeq(idx, 1, (CHOOSE i \in cuts : \A j \in cuts : i <= j) - 1)

\* meta with its event_id column, the Surprise as parsed: event_id -> Surprise.
meta_raw == Mat([k \in {Key(e) : e \in DOMAIN meta_csv} |->
                    meta_csv[CHOOSE e \in DOMAIN meta_csv : Key(e) = k]])

\* The series as the sequence of its values in file order.
SeriesValues(series) ==
    LET idx == InFileOrder(DOMAIN series)
    IN  Force([i \in 1..Len(idx) |-> series[idx[i]]])

\* ranking_dyn: the ticker of every AR key split off the key, the mean CAR by
\* ticker, sorted descending.
ranking_dyn(car_series) ==
    LET idx == InFileOrder(DOMAIN car_series)
        rows == Force([i \in 1..Len(idx) |->
                    [Ticker |-> SplitTicker(idx[i]), CAR |-> car_series[idx[i]]]])
    IN  SortDesc(RankGroup(rows))

\* events["Ticker"].unique(): the tickers in the order of their first row.
UniqueTickers ==
    LET rows == SelectSeq(EventSeq, LAMBDA e : e \in events_csv)
        firsts == SelectSeq(Force([i \in 1..Len(rows) |-> i]),
                      LAMBDA i : \A j \in 1..(i - 1) : rows[j][1] # rows[i][1])
    IN  Force([n \in 1..Len(firsts) |-> rows[firsts[n]][1]])

\* f"{selected} | {last_date}" with last_date the latest date of the ticker.
event_id(sel) ==
    LET dates == {e[2] : e \in {x \in events_csv : x[1] = sel}}
    IN  EventId(sel, CHOOSE d \in dates : \A o \in dates : o <= d)

\* last3: the three latest events of the ticker, latest first, merged with
\* meta on event_id (inner), the CAR mapped from the series (missing if absent).
last3(sel, car_series) ==
    LET E == ev(sel)
        latest == Force([i \in 1..(IF Len(E) < 3 THEN Len(E) ELSE 3) |-> E[Len(E) + 1 - i]])
        kept == SelectSeq(latest, LAMBDA e : e.event_id \in DOMAIN meta_raw)
    IN  Force([i \in 1..Len(kept) |->
            [AnnDate |-> kept[i].AnnDate, Surprise |-> meta_raw[kept[i].event_id],
             CAR |-> IF kept[i].event_id \in DOMAIN car_series
                     THEN car_series[kept[i].event_id] ELSE NaN]])

\* df_scatter: events merged with meta and with the CAR series on event_id
\* (inner joins), without the rows whose Surprise or CAR is missing.
df_scatter(car_series) ==
    LET rows == SelectSeq(EventSeq, LAMBDA e : e \in events_csv)
        keys == Force([i \in 1..Len(rows) |-> Key(rows[i])])
        both == SelectSeq(keys, LAMBDA k : k \in DOMAIN meta_raw /\ k \in DOMAIN car_series)
        merged == Force([i \in 1..Len(both) |->
                      [event_id |-> both[i], Ticker |-> SplitTicker(both[i]),
                       Surprise |-> meta_raw[both[i]], CAR |-> car_series[both[i]]]])
    IN  SelectSeq(merged, LAMBDA r : ~IsNaN(r.Surprise) /\ ~IsNaN(r.CAR))

-----------------------------------------------------------------------------
(* pd.qcut(x, 10, labels=False).                                           *)

\* The number of bins.
NBins == 10

RECURSIVE SortAsc(_)
\* The values in ascending order.
SortAsc(x) ==
    IF x = <<>> THEN <<>>
    ELSE LET i == CHOOSE a \in 1..Len(x) : \A b \in 1..Len(x) : ~RGreater(x[a], x[b])
         IN  <<x[i]>> \o SortAsc(SubSeq(x, 1, i - 1) \o SubSeq(x, i + 1, Len(x)))

\* x.quantile(k/10) with linear interpolation: the value at position
\* k*(N-1)/10 of the sorted values.
Quantile(sorted, k) ==
    LET pos == k * (Len(sorted) - 1)
        lo == 1 + (pos \div NBins)
        rem == pos % NBins
    IN  IF rem = 0 THEN sorted[lo]
        ELSE RAdd(sorted[lo], RMul(Norm(rem, NBins), RSub(sorted[lo + 1], sorted[lo])))

\* The eleven bin edges.
BinEdges(x) == LET s == SortAsc(x) IN Force([i \in 1..(NBins + 1) |-> Quantile(s, i - 1)])

\* qcut raises ValueError ("Bin edges must be unique") when two edges are
\* equal; no value gives no edge.
QcutRaises(x) ==
    \/ x = <<>>
    \/ LET edges == BinEdges(x)
       IN  \E i, j \in 1..(NBins + 1) : i < j /\ edges[i] = edges[j]

\* The bin of each value, 0..9: searchsorted(bins, x, side="left") - 1, the
\* lowest edge included in the first bin.
Qcut(x) ==
    LET edges == BinEdges(x)
    IN  Force([i \in 1..Len(x) |->
            IF x[i] = edges[1] THEN 0
            ELSE Cardinality({k \in 1..(NBins + 1) : RGreater(x[i], edges[k])}) - 1])

\* df_plot["Decile"] = pd.qcut(df_plot["Surprise"], 10, labels=False) + 1
Decile(dfs) ==
    LET q == Qcut(Force([i \in 1..Len(dfs) |-> dfs[i].Surprise]))
    IN  Force([i \in 1..Len(dfs) |-> q[i] + 1])

\* decile_perf: Decile -> mean CAR, for the deciles that have an event.
decile_perf(dfs, dec) ==
    Mat([d \in {dec[i] : i \in 1..Len(dec)} |->
            Mean(CarColumn(SelectSeq(
                Force([i \in 1..Len(dfs) |-> [CAR |-> dfs[i].CAR, Decile |-> dec[i]]]),
                LAMBDA r : r.Decile = d)))])

-----------------------------------------------------------------------------
(* One run of app-checkpoint.py, top to bottom.                            *)

\* Before the first run.
NotRunCheckpoint ==
    [status |-> "not run", line |-> 0, kpi |-> <<>>, ranking_dyn |-> <<>>,
     ar_series |-> <<>>, last3 |-> <<>>, df_scatter |-> <<>>, Decile |-> <<>>,
     decile_perf |-> <<>>]

RunCheckpoint(sel, w) ==
    LET car_series == windows[w]
        kpi == <<Mean(SeriesValues(car0)), Mean(SeriesValues(car1)),
                 Mean(SeriesValues(car11))>>
        rk == ranking_dyn(car_series)
        eid == event_id(sel)
        base == [NotRunCheckpoint EXCEPT !.kpi = kpi, !.ranking_dyn = rk]
    IN  IF eid \notin DOMAIN ar
        THEN [base EXCEPT !.status = "KeyError", !.line = 75]
        ELSE
        LET shown3 == [base EXCEPT !.ar_series = ar[eid],
                                   !.last3 = last3(sel, car_series)]
        IN  IF pandas_merge = "MergeError"
            THEN [shown3 EXCEPT !.status = "MergeError", !.line = 103]
            ELSE
            LET dfs == df_scatter(car_series)
                plotted == [shown3 EXCEPT !.df_scatter = dfs]
            IN  IF QcutRaises(Force([i \in 1..Len(dfs) |-> dfs[i].Surprise]))
                THEN [plotted EXCEPT !.status = "ValueError", !.line = 116]
                ELSE
                LET dec == Decile(dfs)
                IN  [plotted EXCEPT !.status = "ok", !.Decile = dec,
                                    !.decile_perf = decile_perf(dfs, dec)]

\* The files the checkpoint is run on: those of app.py without an infinite
\* surprise.
CheckpointFiles == {f \in Files : \A e \in DOMAIN f[2] : f[2][e] # PosInf}

\* The files are on disk, the session is open, the script has not run yet.
InitCheckpoint ==
    /\ \E f \in CheckpointFiles :
          /\ events_csv = f[1]
          /\ meta_csv = f[2]
          /\ ar = f[3]
    /\ upcoming = <<>>
    /\ pandas_merge \in {"MergeError", "join"}
    /\ ticker = ""
    /\ choice = ""
    /\ window = WindowNames[2]
    /\ selected = UniqueTickers[1]
    /\ view = NotRunCheckpoint

\* The first run of the script: the window at its second option (index=1),
\* the ticker at its first.
StartupCheckpoint ==
    /\ view.status = "not run"
    /\ view' = RunCheckpoint(selected, window)
    /\ UNCHANGED <<tables, pandas_merge, ticker, window, choice, selected>>

\* The user picks another CAR window in the sidebar: the script runs again.
SelectWindowCheckpoint(w) ==
    /\ view.status # "not run"
    /\ w # window
    /\ window' = w
    /\ view' = RunCheckpoint(selected, w)
    /\ UNCHANGED <<tables, pandas_merge, ticker, choice, selected>>

\* The user picks another ticker in the viewer: the script runs again.
SelectTickerCheckpoint(t) ==
    /\ view.status # "not run"
    /\ \E e \in events_csv : e[1] = t
    /\ t # selected
    /\ selected' = t
    /\ view' = RunCheckpoint(t, window)
    /\ UNCHANGED <<tables, pandas_merge, ticker, window, choice>>

NextCheckpoint ==
    \/ StartupCheckpoint
    \/ \E w \in WindowSet : SelectWindowCheckpoint(w)
    \/ \E t \in Tickers : SelectTickerCheckpoint(t)

SpecCheckpoint == InitCheckpoint /\ [][NextCheckpoint]_vars

-----------------------------------------------------------------------------
(* Properties of app-checkpoint.py.                                        *)

\* The events of the scatter view in decile d.
InDecile(d) == {i \in 1..Len(view.Decile) : view.Decile[i] = d}

\* The sum of the surprises of the scatter rows I.
RECURSIVE SurpriseSum(_)
SurpriseSum(I) ==
    IF I = {} THEN 0
    ELSE LET i == CHOOSE j \in I : TRUE
         IN  view.df_scatter[i].Surprise[1] + SurpriseSum(I \ {i})

\* C7 (as claimed): for any surprises of the N events of the scatter view,
\* repeated values included, the decile computation succeeds, labels the
\* events 1..10 by rising surprise, every decile holds floor(N/10) or
\* ceil(N/10) events, and the mean surprise of decile 10 is at least that of
\* decile 1.
C7_DecilesBalanced ==
    (view.status # "not run" /\ view.line \in {0, 116})
        => LET n == Len(view.df_scatter)
           IN  /\ view.status = "ok"
               /\ Len(view.Decile) = n
               /\ \A i \in 1..n : view.Decile[i] \in 1..NBins
               /\ \A i, j \in 1..n :
                     RGreater(view.df_scatter[j].Surprise, view.df_scatter[i].Surprise)
                         => view.Decile[i] <= view.Decile[j]
               /\ \A d \in 1..NBins :
                     Cardinality(InDecile(d)) \in
                         {n \div NBins, (n + NBins - 1) \div NBins}
               /\ (InDecile(1) # {} /\ InDecile(NBins) # {}) =>
                     SurpriseSum(InDecile(NBins)) * Cardinality(InDecile(1))
                         >= SurpriseSum(InDecile(1)) * Cardinality(InDecile(NBins))

=============================================================================
